---- MODULE Spec2Model ----
(***************************************************************************)
(* Model of nip's dataset catalogue (src/nip/dataset.py): the directory    *)
(* walk of BaseParser, the validator, the constructor, the filter engine   *)
(* and the two facades RawDataset and StepDataset.                         *)
(*                                                                         *)
(* Python values are modelled as follows.  A str is a sequence of          *)
(* one-character strings, None is the empty sequence (no directory or file *)
(* name is empty), a list is a sequence.  Objects whose identity matters   *)
(* (SessionItem, FileItem, the lists and dicts held by a SessionItem) live *)
(* in a heap and are referred to by their index.                           *)
(*                                                                         *)
(* The module also models the Scheduler thread (src/nip/scheduler.py): the *)
(* worker thread with its event loop and queue, and the calls start,       *)
(* queue_item and stop made from other threads.                            *)
(***************************************************************************)
EXTENDS Integers, Sequences, FiniteSets, TLC

VARIABLES tree, heap, facades, origin, walks, warnings, outcome,
          thread, loop_ready, queue, awaiting, taken, pc, enqueued, before, stops

\* The state of the dataset objects and the state of the Scheduler
dataVars == <<tree, heap, facades, origin, walks, warnings, outcome>>

schedVars == <<thread, loop_ready, queue, awaiting, taken, pc, enqueued, before, stops>>

vars == <<dataVars, schedVars>>

\* The number of facade objects a behaviour may create.
MaxFacades == 3

-----------------------------------------------------------------------------
(* Strings                                                                 *)

None == <<>>

NoneStr == <<"N", "o", "n", "e">>

Alphabet == <<"-", ".", "/", "0", "1", "2", "3", "4", "5", "6", "7", "8", "9", "A", "B", "C", "D", "E", "F", "G", "H", "I", "J", "K", "L", "M", "N", "O", "P", "Q", "R", "S", "T", "U", "V", "W", "X", "Y", "Z", "_", "a", "b", "c", "d", "e", "f", "g", "h", "i", "j", "k", "l", "m", "n", "o", "p", "q", "r", "s", "t", "u", "v", "w", "x", "y", "z">>

AlnumChars == {"0", "1", "2", "3", "4", "5", "6", "7", "8", "9", "A", "B", "C", "D", "E", "F", "G", "H", "I", "J", "K", "L", "M", "N", "O", "P", "Q", "R", "S", "T", "U", "V", "W", "X", "Y", "Z", "a", "b", "c", "d", "e", "f", "g", "h", "i", "j", "k", "l", "m", "n", "o", "p", "q", "r", "s", "t", "u", "v", "w", "x", "y", "z"}

\* Code point order of the characters in use.
Ord == [c \in {Alphabet[i] : i \in DOMAIN Alphabet} |-> CHOOSE i \in DOMAIN Alphabet : Alphabet[i] = c]

\* Python's < on str: lexicographic by code point.
RECURSIVE StrLess(_, _)
StrLess(a, b) ==
    IF b = <<>> THEN FALSE
    ELSE IF a = <<>> THEN TRUE
    ELSE IF Head(a) = Head(b) THEN StrLess(Tail(a), Tail(b))
    ELSE Ord[Head(a)] < Ord[Head(b)]

\* Python's < on tuples of str (None compared only with None).
RECURSIVE TupleLess(_, _)
TupleLess(k1, k2) ==
    IF k1 = <<>> \/ k2 = <<>> THEN FALSE
    ELSE IF Head(k1) = Head(k2) THEN TupleLess(Tail(k1), Tail(k2))
    ELSE StrLess(Head(k1), Head(k2))

IsPrefix(p, s) == Len(p) <= Len(s) /\ SubSeq(s, 1, Len(p)) = p

\* str.split(sep) for a one-character separator.
RECURSIVE SplitFrom(_, _, _)
SplitFrom(s, sep, cur) ==
    IF s = <<>> THEN <<cur>>
    ELSE IF Head(s) = sep THEN <<cur>> \o SplitFrom(Tail(s), sep, <<>>)
    ELSE SplitFrom(Tail(s), sep, Append(cur, Head(s)))

Split(s, sep) == SplitFrom(s, sep, <<>>)

\* sep.join(parts)
RECURSIVE Join(_, _)
Join(parts, sep) ==
    IF parts = <<>> THEN <<>>
    ELSE IF Len(parts) = 1 THEN parts[1]
    ELSE parts[1] \o <<sep>> \o Join(Tail(parts), sep)

\* helper.strip_empty_str_in_list
strip_empty_str_in_list(l) == SelectSeq(l, LAMBDA e : e /= <<>>)

\* helper.str_to_list: the components of a path string
str_to_list(s) == strip_empty_str_in_list(Split(s, "/"))

\* sorted(xs, key=...): a stable sort, here by insertion.  The argument is the
\* list of <<key, x>> pairs, the result the list of the x.
RECURSIVE InsertSorted(_, _)
InsertSorted(sorted, p) ==
    IF sorted = <<>> THEN <<p>>
    ELSE IF TupleLess(p[1], Head(sorted)[1])
         THEN <<p>> \o sorted
         ELSE <<Head(sorted)>> \o InsertSorted(Tail(sorted), p)

RECURSIVE SortPairs(_)
SortPairs(ps) ==
    IF ps = <<>> THEN <<>>
    ELSE InsertSorted(SortPairs(SubSeq(ps, 1, Len(ps) - 1)), ps[Len(ps)])

Sorted(ps) == LET sp == SortPairs(ps) IN [i \in DOMAIN ps |-> sp[i][2]]

\* A set of str as a sorted list: sorted(names)
SortedNames(S) ==
    CHOOSE s \in [1..Cardinality(S) -> S] :
        /\ \A i, j \in 1..Cardinality(S) : i < j => StrLess(s[i], s[j])

\* Every ordering of a finite set.
Orderings(S) ==
    {s \in [1..Cardinality(S) -> S] : \A i, j \in 1..Cardinality(S) : i /= j => s[i] /= s[j]}

Max(S) == CHOOSE x \in S : \A y \in S : y <= x

-----------------------------------------------------------------------------
(* The directory tree on disk and BaseParser's walk over it                *)
(* A tree is [dirs, files]: dirs the directories (each the list of names   *)
(* below the root), files the pairs <<directory, file name>>.             *)

\* self.path, an absolute path
RootPath == <<"/", "d", "a", "t", "a">>

Prefixes(p) == {SubSeq(p, 1, n) : n \in 0..Len(p)}

AllDirs(t) == UNION {Prefixes(p) : p \in t.dirs \cup {f[1] : f \in t.files}} \cup {<<>>}

\* What os.walk reports for a directory: its path, its subdirectories, its files.
DirPath(d) == RootPath \o (IF d = <<>> THEN <<>> ELSE <<"/">> \o Join(d, "/"))

DirNames(t, d) == {p[Len(p)] : p \in {q \in AllDirs(t) : Len(q) = Len(d) + 1 /\ SubSeq(q, 1, Len(d)) = d}}

FileNames(t, d) == {f[2] : f \in {g \in t.files : g[1] = d}}

\* BaseParser._init_process
abs_path == RootPath

abs_path_list == strip_empty_str_in_list(Split(abs_path, "/"))

abs_path_depth == Len(abs_path_list)

\* relpath = str_to_list(dirpath)[self._abs_path_depth:]
RelPath(d) ==
    LET l == str_to_list(DirPath(d))
    IN SubSeq(l, abs_path_depth + 1, Len(l))

\* os.path.sep.join(relpath)
RelKey(d) == Join(RelPath(d), "/")

\* BaseParser._parse_all: max_depth and the two by-depth indexes.  A dict is a
\* function; the order in which os.walk fills it is chosen where it is read.
MaxDepthOf(t) ==
    LET leaves == {d \in AllDirs(t) : DirNames(t, d) = {}}
    IN Max({0} \cup {Len(RelPath(d)) : d \in leaves})

DirsByDepth(t) ==
    LET inner == {d \in AllDirs(t) : DirNames(t, d) /= {}}
    IN [n \in {Len(RelPath(d)) : d \in inner} |->
          [k \in {RelKey(d) : d \in {e \in inner : Len(RelPath(e)) = n}} |->
              SortedNames(DirNames(t, CHOOSE d \in inner : RelKey(d) = k))]]

FilesByDepth(t) ==
    LET filled == {d \in AllDirs(t) : FileNames(t, d) /= {}}
    IN [n \in {Len(RelPath(d)) : d \in filled} |->
          [k \in {RelKey(d) : d \in {e \in filled : Len(RelPath(e)) = n}} |->
              SortedNames(FileNames(t, CHOOSE d \in filled : RelKey(d) = k))]]

ParseAll(t) ==
    [max_depth |-> MaxDepthOf(t), dirs |-> DirsByDepth(t), files |-> FilesByDepth(t)]

\* The orders in which a top-down os.walk can reach the directories keys names:
\* the directories below one directory are reached one after the other.
RECURSIVE CommonLen(_, _)
CommonLen(a, b) ==
    IF a = <<>> \/ b = <<>> \/ Head(a) /= Head(b) THEN 0
    ELSE 1 + CommonLen(Tail(a), Tail(b))

WalkOrders(keys) ==
    {o \in Orderings(keys) :
        \A i, j, k \in DOMAIN o :
            (i < j /\ j < k) =>
                CommonLen(str_to_list(o[i]), str_to_list(o[k]))
                    <= CommonLen(str_to_list(o[i]), str_to_list(o[j]))}

-----------------------------------------------------------------------------
(* BaseParser._validator                                                   *)

\* MaxDepthRef(2, 3) of RawDataset and MaxDepthRef(1, 2) of StepDataset
RawRef == [single_session |-> 2, multi_session |-> 3]

StepRef == [single_session |-> 1, multi_session |-> 2]

\* A list that forgets the multi-session depth
RefListSingleOnly(ref) == <<ref.single_session>>

\* MaxDepthRef.list
RefList(ref) == <<ref.single_session, ref.multi_session>>

InList(x, l) == \E i \in DOMAIN l : l[i] = x

\* re.compile(r'sub-[a-zA-Z0-9]+').match(s) != None: a match at the start of s
subj_pattern(s) ==
    /\ IsPrefix(<<"s", "u", "b", "-">>, s)
    /\ Len(s) >= 5
    /\ s[5] \in AlnumChars

\* re.compile(r'ses-[a-zA-Z0-9]+').match(s) != None
sess_pattern(s) ==
    /\ IsPrefix(<<"s", "e", "s", "-">>, s)
    /\ Len(s) >= 5
    /\ s[5] \in AlnumChars

\* re.compile(r'sub-[a-zA-Z0-9]+(_ses-[a-zA-Z0-9]+)?.*').match(s) != None:
\* the optional group and the trailing .* match the empty string
file_pattern(s) ==
    /\ IsPrefix(<<"s", "u", "b", "-">>, s)
    /\ Len(s) >= 5
    /\ s[5] \in AlnumChars

\* [s for i, s in enumerate(names) if mask[i]]
KeepMasked(names, mask) ==
    LET idx == {i \in DOMAIN names : mask[i]}
        pos(i) == Cardinality({j \in idx : j <= i})
    IN [n \in 1..Cardinality(idx) |-> names[CHOOSE i \in idx : pos(i) = n]]

\* The loop over enumerate(names) of lines 428-432 and 439-443: each of its
\* rounds filters the current list by the mask of the original list.
RECURSIVE ExcludeLoop(_, _, _)
ExcludeLoop(rounds, names, mask) ==
    IF rounds = 0 THEN names
    ELSE ExcludeLoop(rounds - 1, KeepMasked(names, mask), mask)

\* The names the loop warns about: those at the indexes where the mask is set.
WarnedNames(names, mask) == KeepMasked(names, mask)

\* Lines 424-432 (what = "subject") and 436-443 (what = "session"): the
\* validated names and the warnings issued.
Matches(what, s) == IF what = "subject" THEN subj_pattern(s) ELSE sess_pattern(s)

ValidateNames(names, what) ==
    LET sorted == Sorted([i \in DOMAIN names |-> <<(<<names[i]>>), names[i]>>])
        mask == [i \in DOMAIN sorted |-> Matches(what, sorted[i])]
    IN IF \A i \in DOMAIN mask : mask[i]
       THEN [names |-> sorted, warned |-> <<>>]
       ELSE [names |-> ExcludeLoop(Len(sorted), sorted, mask),
             warned |-> [i \in DOMAIN WarnedNames(sorted, mask) |->
                            [what |-> what, name |-> WarnedNames(sorted, mask)[i]]]]

\* All names listed under the keys of one depth of a by-depth index
NamesAt(level) == UNION {{level[k][i] : i \in DOMAIN level[k]} : k \in DOMAIN level}

\* os.path.join(a, b): b alone when it is absolute, no separator added after
\* an empty a or an a that ends with one
PathJoin(a, b) ==
    IF b /= <<>> /\ Head(b) = "/" THEN b
    ELSE IF a = <<>> \/ a[Len(a)] = "/" THEN a \o b
    ELSE a \o <<"/">> \o b

RECURSIVE Flatten(_)
Flatten(ss) == IF ss = <<>> THEN <<>> ELSE Head(ss) \o Flatten(Tail(ss))

\* Lines 448-455: the file warnings, files read in the order of the dict.
FileWarnings(level, order) ==
    IF \A f \in NamesAt(level) : file_pattern(f)
    THEN <<>>
    ELSE Flatten([n \in DOMAIN order |->
            [i \in DOMAIN level[order[n]] |->
                [what |-> "file", name |-> PathJoin(order[n], level[order[n]][i])]]])

\* A list that may be None: [none |-> TRUE] is None, otherwise items is the list.
NoneList == [none |-> TRUE, items |-> <<>>]

ListOf(l) == [none |-> FALSE, items |-> l]

NoResult == [subjects |-> NoneList, sessions |-> NoneList, modals |-> NoneList]

\* BaseParser._validator(dirs, files, max_depth, ref, modal); order is the
\* order of the keys of files.by_depth[max_depth].  The result says how the call
\* ended, what it returned and what it warned about before it ended.
validator(dirs, files, max_depth, ref, modal, order) ==
    IF ~InList(max_depth, RefList(ref))
    THEN [status |-> "DepthError", result |-> NoResult, warned |-> <<>>]
    ELSE IF 0 \notin DOMAIN dirs \/ None \notin DOMAIN dirs[0]
    THEN [status |-> "KeyError", result |-> NoResult, warned |-> <<>>]
    ELSE
    LET subj == ValidateNames(dirs[0][None], "subject")
    IN IF max_depth = ref.multi_session /\ ref.multi_session \notin DOMAIN dirs
       THEN [status |-> "KeyError", result |-> NoResult, warned |-> subj.warned]
       ELSE
       LET sess == IF max_depth = ref.multi_session
                   THEN ValidateNames(SortedNames(NamesAt(dirs[ref.multi_session])), "session")
                   ELSE [names |-> <<>>, warned |-> <<>>]
       IN IF max_depth \notin DOMAIN files
          THEN [status |-> "KeyError", result |-> NoResult,
                warned |-> subj.warned \o sess.warned]
          ELSE [status |-> "ok",
                result |-> [subjects |-> ListOf(subj.names),
                            sessions |-> IF max_depth = ref.multi_session
                                         THEN ListOf(sess.names)
                                         ELSE NoneList,
                            modals |-> IF modal
                                       THEN ListOf(SortedNames(NamesAt(dirs[max_depth - 1])))
                                       ELSE NoneList],
                warned |-> subj.warned \o sess.warned
                             \o FileWarnings(files[max_depth], order)]

-----------------------------------------------------------------------------
(* The heap: SessionItem and FileItem objects, and the list and dict       *)
(* objects a SessionItem's files refers to.  An object is named by its     *)
(* index; files is [tag |-> "list" or "dict", id |-> index].  A dict keeps  *)
(* its keys in insertion order, refs[i] being the list stored under        *)
(* keys[i].                                                                *)

EmptyHeap == [sess |-> <<>>, lists |-> <<>>, dicts |-> <<>>, files |-> <<>>]

ListRef(id) == [tag |-> "list", id |-> id]

DictRef(id) == [tag |-> "dict", id |-> id]

IndexOf(l, x) == CHOOSE i \in DOMAIN l : l[i] = x

\* d[key] of a dict object
DictGet(d, key) == d.refs[IndexOf(d.keys, key)]

\* d[key] = ref on a dict object: a new key goes last
DictSet(d, key, ref) ==
    IF InList(key, d.keys)
    THEN [d EXCEPT !.refs[IndexOf(d.keys, key)] = ref]
    ELSE [keys |-> Append(d.keys, key), refs |-> Append(d.refs, ref)]

\* FileItem, lines 22-50
FileItem(subject, session, modal, annotation, absdir, filename, fileext) ==
    [subject |-> subject, session |-> session, modal |-> modal,
     annotation |-> annotation, absdir |-> absdir,
     filename |-> filename, fileext |-> fileext]

\* FileItem.basename without the extension
basenameStemOnly(f) == f.filename

\* FileItem.basename
basename(f) == f.filename \o <<".">> \o f.fileext

\* FileItem.abspath
abspath(f) == PathJoin(f.absdir, basename(f))

\* The arguments of FileItem.modify: replace is None or a Replace(regex,
\* replacement), prefix, suffix and ext are None or a str, absdir is a bool or
\* a str.
NoReplace == [kind |-> "none", regex |-> <<>>, replacement |-> <<>>]

Replace(regex, replacement) == [kind |-> "replace", regex |-> regex, replacement |-> replacement]

BoolArg(b) == [kind |-> "bool", val |-> b]

Options(replace, prefix, suffix, ext, absdir) ==
    [replace |-> replace, prefix |-> prefix, suffix |-> suffix, ext |-> ext, absdir |-> absdir]

DefaultOptions == Options(NoReplace, [kind |-> "none", val |-> <<>>], [kind |-> "none", val |-> <<>>],
                          [kind |-> "none", val |-> <<>>], BoolArg(FALSE))

\* re.compile(regex).sub(replacement, s) for a regex made of literal
\* characters: every occurrence replaced, from the left, without overlap
RECURSIVE ReSub(_, _, _)
ReSub(regex, replacement, s) ==
    IF regex = <<>>
    THEN IF s = <<>> THEN replacement
         ELSE replacement \o <<Head(s)>> \o ReSub(regex, replacement, Tail(s))
    ELSE IF s = <<>> THEN <<>>
    ELSE IF IsPrefix(regex, s)
         THEN replacement \o ReSub(regex, replacement, SubSeq(s, Len(regex) + 1, Len(s)))
         ELSE <<Head(s)>> \o ReSub(regex, replacement, Tail(s))

\* Python's truth value of absdir: a bool, or a str that is not empty
TruthyDir(d) == IF d.kind = "bool" THEN d.val ELSE d.val /= <<>>

\* Python's truth value of prefix, suffix and ext
TruthyStr(x) == x.kind /= "none" /\ x.val /= <<>>

\* Lines 79-85: the file name after replace, prefix and suffix
Replaced(f, o) ==
    IF o.replace.kind /= "none" THEN ReSub(o.replace.regex, o.replace.replacement, f.filename)
    ELSE f.filename

Prefixed(o, modified) == IF TruthyStr(o.prefix) THEN o.prefix.val \o modified ELSE modified

Suffixed(o, modified) == IF TruthyStr(o.suffix) THEN modified \o o.suffix.val ELSE modified

\* Lines 86-89
NewExt(f, o) ==
    IF TruthyStr(o.ext) THEN Join(strip_empty_str_in_list(Split(o.ext.val, ".")), ".")
    ELSE f.fileext

\* Lines 70-76 and 92-98: the name alone, or below absdir or self.absdir
InDir(f, o, name) ==
    IF TruthyDir(o.absdir)
    THEN IF o.absdir.kind = "bool" THEN PathJoin(f.absdir, name) ELSE PathJoin(o.absdir.val, name)
    ELSE name

\* FileItem.modify(replace, prefix, suffix, ext, absdir)
modify(f, o) ==
    IF /\ o.prefix.kind = "none" /\ o.suffix.kind = "none"
       /\ o.replace.kind = "none" /\ o.ext.kind = "none"
    THEN IF TruthyDir(o.absdir)
         THEN IF o.absdir.kind = "bool" THEN abspath(f) ELSE PathJoin(o.absdir.val, basename(f))
         ELSE basename(f)
    ELSE InDir(f, o, Suffixed(o, Prefixed(o, Replaced(f, o))) \o <<".">> \o NewExt(f, o))

\* SessionItem, lines 139-154
SessionItem(subject, session, files) ==
    [subject |-> subject, session |-> session, files |-> files]

-----------------------------------------------------------------------------
(* BaseParser._constructor                                                 *)

\* f"{x}" of a str or None
Str(x) == IF x = None THEN NoneStr ELSE x

\* f.split('.', 1)
SplitFirst(s, sep) ==
    IF \E i \in DOMAIN s : s[i] = sep
    THEN LET i == CHOOSE j \in DOMAIN s : s[j] = sep /\ \A k \in 1..(j - 1) : s[k] /= sep
         IN <<SubSeq(s, 1, i - 1), SubSeq(s, i + 1, Len(s))>>
    ELSE <<s>>

\* Lines 509-524: subject, session and modality of a path at max depth, or
\* the error raised.
ParseMeta(sess_path, max_depth, ref, modal) ==
    LET parts == str_to_list(sess_path)
        meta(subj, sess, m) == [status |-> "ok", subj |-> subj, sess |-> sess, modal |-> m]
        fail(e) == [status |-> e, subj |-> None, sess |-> None, modal |-> None]
    IN IF max_depth = ref.single_session
       THEN IF modal
            THEN IF Len(parts) = 2 THEN meta(parts[1], None, parts[2]) ELSE fail("ValueError")
            ELSE IF Len(parts) >= 1 THEN meta(parts[1], None, None) ELSE fail("IndexError")
       ELSE IF max_depth = ref.multi_session
       THEN IF modal
            THEN IF Len(parts) = 3 THEN meta(parts[1], parts[2], parts[3]) ELSE fail("ValueError")
            ELSE IF Len(parts) = 2 THEN meta(parts[1], parts[2], None) ELSE fail("ValueError")
       ELSE fail("DepthError")

\* Line 527
TaskId(subj, sess) == Str(subj) \o <<"-">> \o Str(sess)

\* Lines 551, 553, 556, 557: the sort keys
FileKeyInSession(f) == <<f.filename, f.fileext>>

FileKeyFlat(f) == <<f.modal, f.filename, f.fileext>>

SessionKey(x) == <<x.subject, x.session>>

FileKey(x) == <<x.subject, x.session, x.modal, x.filename, x.fileext>>

\* key names the lambda given to sorted
SortKey(key, f) ==
    CASE key = "FileKeyInSession" -> FileKeyInSession(f)
      [] key = "FileKeyFlat" -> FileKeyFlat(f)
      [] key = "FileKey" -> FileKey(f)

SortFiles(h, ids, key) == Sorted([i \in DOMAIN ids |-> <<SortKey(key, h.files[ids[i]]), ids[i]>>])

SortSessions(h, ids) == Sorted([i \in DOMAIN ids |-> <<SessionKey(h.sess[ids[i]]), ids[i]>>])

\* Lines 531-536: a new SessionItem with an empty dict or list, appended to
\* session_list, its task id appended to processed.
NewSession(st, subj, sess, modal) ==
    [st EXCEPT !.heap = IF modal /= None
                        THEN [@ EXCEPT !.dicts = Append(@, [keys |-> <<>>, refs |-> <<>>]),
                                       !.sess = Append(@, SessionItem(subj, sess,
                                                    DictRef(Len(st.heap.dicts) + 1)))]
                        ELSE [@ EXCEPT !.lists = Append(@, <<>>),
                                       !.sess = Append(@, SessionItem(subj, sess,
                                                    ListRef(Len(st.heap.lists) + 1)))],
              !.sinfo = Len(st.heap.sess) + 1,
              !.session_list = Append(@, Len(st.heap.sess) + 1),
              !.processed = Append(@, TaskId(subj, sess))]

\* Line 529: the first SessionItem of session_list with this subject and session
FoundSession(st, found) ==
    IF found = <<>> THEN [st EXCEPT !.status = "IndexError"]
    ELSE [st EXCEPT !.sinfo = found[1]]

\* Lines 527-536: the SessionItem of the pair, looked up or created.
\* st is the state of the loop: heap, processed, session_list, file_list.
LookupSession(st, subj, sess, modal) ==
    IF InList(TaskId(subj, sess), st.processed)
    THEN FoundSession(st, SelectSeq(st.session_list,
                            LAMBDA id : st.heap.sess[id].subject = subj
                                        /\ st.heap.sess[id].session = sess))
    ELSE NewSession(st, subj, sess, modal)

\* Lines 542-543: sinfo.files[modal] = [] when the key is new
EnsureBucket(h, did, modal) ==
    IF InList(modal, h.dicts[did].keys) THEN h
    ELSE [h EXCEPT !.lists = Append(@, <<>>),
                   !.dicts[did] = DictSet(@, modal, Len(h.lists) + 1)]

\* Line 544: sinfo.files[modal].append(finfo), for every file of the path
AppendBucket(h, did, modal, ids) ==
    [h EXCEPT !.lists[DictGet(h.dicts[did], modal)] = @ \o ids]

\* Line 551: sinfo.files[modal] = sorted(sinfo.files[modal], ...)
SortBucket(h, did, modal) ==
    [h EXCEPT !.lists = Append(@, SortFiles(h, h.lists[DictGet(h.dicts[did], modal)],
                                            "FileKeyInSession")),
              !.dicts[did] = DictSet(@, modal, Len(h.lists) + 1)]

\* Line 547: sinfo.files.append(finfo), for every file of the path
AppendFlat(h, sid, ids) ==
    [h EXCEPT !.lists[h.sess[sid].files.id] = @ \o ids]

\* Line 553: sinfo.files = sorted(sinfo.files, ...)
SortFlat(h, sid) ==
    [h EXCEPT !.lists = Append(@, SortFiles(h, h.lists[h.sess[sid].files.id], "FileKeyFlat")),
              !.sess[sid].files = ListRef(Len(h.lists) + 1)]

\* Lines 539-553 on a heap that holds the new FileItems as ids
StoreFiles(h, sid, modal, ids) ==
    IF modal /= None
    THEN SortBucket(AppendBucket(EnsureBucket(h, h.sess[sid].files.id, modal),
                                 h.sess[sid].files.id, modal, ids),
                    h.sess[sid].files.id, modal)
    ELSE SortFlat(AppendFlat(h, sid, ids), sid)

\* Lines 538-540: the FileItems of the split file names
MakeFiles(split, sess_path, subj, sess, modal) ==
    [i \in DOMAIN split |->
        FileItem(subj, sess, modal, abs_path_list[Len(abs_path_list)],
                 PathJoin(abs_path, sess_path), split[i][1], split[i][2])]

AddSplitFiles(st, split, sess_path, subj, sess, modal) ==
    IF \E i \in DOMAIN split : Len(split[i]) /= 2
    THEN [st EXCEPT !.status = "ValueError"]
    ELSE [st EXCEPT
            !.heap = StoreFiles([@ EXCEPT !.files = @ \o MakeFiles(split, sess_path, subj, sess, modal)],
                                st.sinfo, modal,
                                [i \in DOMAIN split |-> Len(st.heap.files) + i]),
            !.file_list = @ \o [i \in DOMAIN split |-> Len(st.heap.files) + i]]

\* Lines 537-553: the FileItems of one path, appended and sorted.
AddFiles(st, sess_path, filenames, subj, sess, modal) ==
    IF st.status /= "ok" THEN st
    ELSE AddSplitFiles(st, [i \in DOMAIN filenames |-> SplitFirst(filenames[i], ".")],
                       sess_path, subj, sess, modal)

\* A round that leaves out the paths of a subject whose name fails the pattern
ConstructMetaValidOnly(st, sess_path, filenames, m) ==
    IF m.status /= "ok" THEN [st EXCEPT !.status = m.status]
    ELSE IF ~subj_pattern(m.subj) THEN st
    ELSE AddFiles(LookupSession(st, m.subj, m.sess, m.modal),
                  sess_path, filenames, m.subj, m.sess, m.modal)

\* One round of the loop of line 506, m being the result of ParseMeta.
ConstructMeta(st, sess_path, filenames, m) ==
    IF m.status /= "ok" THEN [st EXCEPT !.status = m.status]
    ELSE AddFiles(LookupSession(st, m.subj, m.sess, m.modal),
                  sess_path, filenames, m.subj, m.sess, m.modal)

ConstructPath(st, sess_path, filenames, max_depth, ref, modal) ==
    IF st.status /= "ok" THEN st
    ELSE ConstructMeta(st, sess_path, filenames, ParseMeta(sess_path, max_depth, ref, modal))

RECURSIVE ConstructLoop(_, _, _, _, _, _)
ConstructLoop(st, order, level, max_depth, ref, modal) ==
    IF order = <<>> THEN st
    ELSE ConstructLoop(ConstructPath(st, Head(order), level[Head(order)], max_depth, ref, modal),
                       Tail(order), level, max_depth, ref, modal)

\* The two lists returned in the order the walk built them
SortListsSkipped(st) == st

\* Lines 555-558: the two lists sorted, when the loop ended without an error
SortLists(st) ==
    IF st.status /= "ok" THEN st
    ELSE [st EXCEPT !.session_list = SortSessions(st.heap, @),
                    !.file_list = SortFiles(st.heap, @, "FileKey")]

LoopStart(h) ==
    [status |-> "ok", heap |-> h, processed |-> <<>>, sinfo |-> 0,
     session_list |-> <<>>, file_list |-> <<>>]

\* BaseParser._constructor(files, ref, modal) on heap h; order is the order of
\* the keys of files.by_depth[self.max_depth].
constructor(h, files, max_depth, ref, modal, order) ==
    IF max_depth \notin DOMAIN files
    THEN [LoopStart(h) EXCEPT !.status = "KeyError"]
    ELSE SortLists(ConstructLoop(LoopStart(h), order, files[max_depth], max_depth, ref, modal))

-----------------------------------------------------------------------------
(* FileItem.is_match, FileItem.has_ext and the filter engine               *)
(* A filter argument is [kind |-> "none"] (None), [kind |-> "str"] with    *)
(* val the string, or [kind |-> "list"] with val the list of strings.      *)

NoArg == [kind |-> "none", val |-> <<>>]

StrArg(s) == [kind |-> "str", val |-> s]

ListArg(l) == [kind |-> "list", val |-> l]

\* Python's truth value of an argument: None, "" and [] are false
Truthy(a) == a.kind /= "none" /\ a.val /= <<>>

\* if isinstance(x, str): x = [x]
AsList(a) == IF a.kind = "str" THEN <<a.val>> ELSE a.val

\* FileItem.is_match(regex) for a regex made of literal characters:
\* re.match looks for the pattern at the start of the file name
is_match(f, regex) == IsPrefix(regex, f.filename)

\* FileItem.has_ext(ext)
has_ext(f, ext) ==
    strip_empty_str_in_list(Split(f.fileext, ".")) = strip_empty_str_in_list(Split(ext, "."))

\* The per-file tests of lines 600-613 and 647-675, each applied when its
\* argument is true.
KeepModal(f, a) == Truthy(a.modal) => InList(f.modal, AsList(a.modal))

KeepAnnotation(f, a) == Truthy(a.annotation) => InList(f.annotation, AsList(a.annotation))

KeepExt(f, a) == Truthy(a.ext) => has_ext(f, a.ext.val)

KeepRegex(f, a) == Truthy(a.regex) => is_match(f, a.regex.val)

\* The test of regex_ignore without its negation
KeepRegexIgnoreNotNegated(f, a) == Truthy(a.regex_ignore) => is_match(f, a.regex_ignore.val)

KeepRegexIgnore(f, a) == Truthy(a.regex_ignore) => ~is_match(f, a.regex_ignore.val)

KeepSubject(x, a) == Truthy(a.subject) => InList(x.subject, AsList(a.subject))

KeepSession(x, a) == Truthy(a.session) => InList(x.session, AsList(a.session))

KeepAll(f, a) ==
    /\ KeepSubject(f, a) /\ KeepSession(f, a) /\ KeepModal(f, a) /\ KeepAnnotation(f, a)
    /\ KeepExt(f, a) /\ KeepRegex(f, a) /\ KeepRegexIgnore(f, a)

\* A flat list filtered by removing from it while iterating over it: the
\* record after a removed one is stepped over.
RECURSIVE RemoveWhileIterating(_, _, _, _)
RemoveWhileIterating(h, l, i, a) ==
    IF i > Len(l) THEN l
    ELSE IF KeepAll(h.files[l[i]], a)
         THEN RemoveWhileIterating(h, l, i + 1, a)
         ELSE RemoveWhileIterating(h, SubSeq(l, 1, i - 1) \o SubSeq(l, i + 1, Len(l)), i + 1, a)

FilterFileListInPlace(h, file_list, a) == RemoveWhileIterating(h, file_list, 1, a)

\* A flat list filtered by the first argument given only (elif for if)
FilterFileListElif(h, file_list, a) ==
    SelectSeq(file_list,
        LAMBDA id :
            IF Truthy(a.subject) THEN KeepSubject(h.files[id], a)
            ELSE IF Truthy(a.session) THEN KeepSession(h.files[id], a)
            ELSE IF Truthy(a.modal) THEN KeepModal(h.files[id], a)
            ELSE IF Truthy(a.annotation) THEN KeepAnnotation(h.files[id], a)
            ELSE IF Truthy(a.ext) THEN KeepExt(h.files[id], a)
            ELSE IF Truthy(a.regex) THEN KeepRegex(h.files[id], a)
            ELSE KeepRegexIgnore(h.files[id], a))

\* Lines 588-613: the flat list, filtered step by step.
FilterFileList(h, file_list, a) ==
    SelectSeq(SelectSeq(SelectSeq(SelectSeq(SelectSeq(SelectSeq(SelectSeq(
        file_list,
        LAMBDA id : KeepSubject(h.files[id], a)),
        LAMBDA id : KeepSession(h.files[id], a)),
        LAMBDA id : KeepModal(h.files[id], a)),
        LAMBDA id : KeepAnnotation(h.files[id], a)),
        LAMBDA id : KeepExt(h.files[id], a)),
        LAMBDA id : KeepRegex(h.files[id], a)),
        LAMBDA id : KeepRegexIgnore(h.files[id], a))

\* A filter that keeps every session
FilterSessionListAll(h, session_list, a) == session_list

\* Lines 589-599: the session list, filtered by subject and session.
FilterSessionList(h, session_list, a) ==
    SelectSeq(SelectSeq(
        session_list,
        LAMBDA id : KeepSubject(h.sess[id], a)),
        LAMBDA id : KeepSession(h.sess[id], a))

\* Line 645: [copy(s) for s in session_list], a shallow copy of every
\* SessionItem: new objects whose files is the object the original refers to.
NoCopySessions(h, ids) == [heap |-> h, ids |-> ids]

CopySessions(h, ids) ==
    [heap |-> [h EXCEPT !.sess = @ \o [i \in DOMAIN ids |-> h.sess[ids[i]]]],
     ids |-> [i \in DOMAIN ids |-> Len(h.sess) + i]]

\* sess.files = {m: [f for f in fs if test] ...} or [f for f in sess.files if
\* test]: new list objects (and a new dict), assigned to the files of sess.
\* The test of one 'if' of _session_filter, named by its argument
Keep(kind, f, a) ==
    CASE kind = "modal" -> KeepModal(f, a)
      [] kind = "annotation" -> KeepAnnotation(f, a)
      [] kind = "regex" -> KeepRegex(f, a)
      [] kind = "regex_ignore" -> KeepRegexIgnore(f, a)
      [] kind = "ext" -> KeepExt(f, a)

AssignFilteredDict(h, sid, d, kind, a) ==
    [h EXCEPT !.lists = @ \o [i \in DOMAIN d.keys |->
                                SelectSeq(h.lists[d.refs[i]], LAMBDA id : Keep(kind, h.files[id], a))],
              !.dicts = Append(@, [keys |-> d.keys,
                                   refs |-> [i \in DOMAIN d.keys |-> Len(h.lists) + i]]),
              !.sess[sid].files = DictRef(Len(h.dicts) + 1)]

AssignFilteredList(h, sid, l, kind, a) ==
    [h EXCEPT !.lists = Append(@, SelectSeq(l, LAMBDA id : Keep(kind, h.files[id], a))),
              !.sess[sid].files = ListRef(Len(h.lists) + 1)]

AssignFiltered(h, sid, kind, a) ==
    IF h.sess[sid].files.tag = "dict"
    THEN AssignFilteredDict(h, sid, h.dicts[h.sess[sid].files.id], kind, a)
    ELSE AssignFilteredList(h, sid, h.lists[h.sess[sid].files.id], kind, a)

\* Lines 676-677: a dict is replaced by a dict of its non-empty lists.
PruneDict(h, sid, d, mask) ==
    [h EXCEPT !.dicts = Append(@, [keys |-> KeepMasked(d.keys, mask),
                                   refs |-> KeepMasked(d.refs, mask)]),
              !.sess[sid].files = DictRef(Len(h.dicts) + 1)]

NonEmptyMask(h, d) == [i \in DOMAIN d.keys |-> h.lists[d.refs[i]] /= <<>>]

\* A session filter that leaves the empty lists in the dict
PruneEmptySkipped(h, sid) == h

PruneEmpty(h, sid) ==
    IF h.sess[sid].files.tag = "dict"
    THEN PruneDict(h, sid, h.dicts[h.sess[sid].files.id],
                   NonEmptyMask(h, h.dicts[h.sess[sid].files.id]))
    ELSE h

\* A session filter that leaves the extension test out
FilterByExtSkipped(h, sid, a) == h

\* Lines 647-677: the body of the loop, for one SessionItem.
FilterByModal(h, sid, a) ==
    IF Truthy(a.modal) THEN AssignFiltered(h, sid, "modal", a) ELSE h

FilterByAnnotation(h, sid, a) ==
    IF Truthy(a.annotation) THEN AssignFiltered(h, sid, "annotation", a) ELSE h

FilterByRegex(h, sid, a) ==
    IF Truthy(a.regex) THEN AssignFiltered(h, sid, "regex", a) ELSE h

FilterByRegexIgnore(h, sid, a) ==
    IF Truthy(a.regex_ignore) THEN AssignFiltered(h, sid, "regex_ignore", a) ELSE h

FilterByExt(h, sid, a) ==
    IF Truthy(a.ext) THEN AssignFiltered(h, sid, "ext", a) ELSE h

FilterOneSession(h, sid, a) ==
    PruneEmpty(
        FilterByExt(
            FilterByRegexIgnore(
                FilterByRegex(
                    FilterByAnnotation(
                        FilterByModal(h, sid, a), sid, a), sid, a), sid, a), sid, a), sid)

RECURSIVE FilterSessions(_, _, _)
FilterSessions(h, ids, a) ==
    IF ids = <<>> THEN h
    ELSE FilterSessions(FilterOneSession(h, Head(ids), a), Tail(ids), a)

\* Lines 646-679: the loop over the copies
FilterCopies(c, a) == [heap |-> FilterSessions(c.heap, c.ids, a), session_list |-> c.ids]

\* BaseParser._session_filter
session_filter(h, session_list, a) == FilterCopies(CopySessions(h, session_list), a)

FilterResult(file_list, sf) ==
    [heap |-> sf.heap, file_list |-> file_list, session_list |-> sf.session_list]

\* BaseParser._filter
filter(h, file_list, session_list, a) ==
    FilterResult(FilterFileList(h, file_list, a),
                 session_filter(h, FilterSessionList(h, session_list, a), a))

-----------------------------------------------------------------------------
(* The trees and the filter arguments of the model                         *)

sub01 == <<"s", "u", "b", "-", "0", "1">>
sub02 == <<"s", "u", "b", "-", "0", "2">>
junk == <<"j", "u", "n", "k">>
zzz == <<"z", "z", "z">>
ses01 == <<"s", "e", "s", "-", "0", "1">>
ses02 == <<"s", "e", "s", "-", "0", "2">>
anat == <<"a", "n", "a", "t">>
func == <<"f", "u", "n", "c">>
extra == <<"e", "x", "t", "r", "a">>
data == <<"d", "a", "t", "a">>
aHb == <<"a", "-", "b">>
cName == <<"c">>
aName == <<"a">>
bHc == <<"b", "-", "c">>
mName == <<"m">>
fT1w01 == <<"s", "u", "b", "-", "0", "1", "_", "T", "1", "w", ".", "n", "i", "i", ".", "g", "z">>
fBold01 == <<"s", "u", "b", "-", "0", "1", "_", "b", "o", "l", "d", ".", "n", "i", "i">>
fT1w02 == <<"s", "u", "b", "-", "0", "2", "_", "T", "1", "w", ".", "n", "i", "i">>
fX == <<"x", ".", "n", "i", "i", ".", "g", "z">>
fT1w09 == <<"s", "u", "b", "-", "0", "9", "_", "T", "1", "w", ".", "n", "i", "i">>
fStepA01 == <<"s", "u", "b", "-", "0", "1", "_", "a", ".", "n", "i", "i">>
fStepB01 == <<"s", "u", "b", "-", "0", "1", "_", "b", ".", "n", "i", "i", ".", "g", "z">>
fStepA02 == <<"s", "u", "b", "-", "0", "2", "_", "a", ".", "n", "i", "i">>
fSes0101 == <<"s", "u", "b", "-", "0", "1", "_", "s", "e", "s", "-", "0", "1", "_", "T", "1", "w", ".", "n", "i", "i", ".", "g", "z">>
fSes0201 == <<"s", "u", "b", "-", "0", "2", "_", "s", "e", "s", "-", "0", "1", "_", "T", "1", "w", ".", "n", "i", "i", ".", "g", "z">>
fSes0102 == <<"s", "u", "b", "-", "0", "1", "_", "s", "e", "s", "-", "0", "2", "_", "b", "o", "l", "d", ".", "n", "i", "i">>
fReadme == <<"R", "E", "A", "D", "M", "E">>
fXnii == <<"x", ".", "n", "i", "i">>
fYnii == <<"y", ".", "n", "i", "i">>
extNiiGz == <<"n", "i", "i", ".", "g", "z">>

Tree(files, dirs) == [files |-> files, dirs |-> dirs]

\* <subject>/<modality>/<file>
pA == <<(<<sub01, anat>>), fT1w01>>
pB == <<(<<sub01, func>>), fBold01>>
pC == <<(<<sub02, anat>>), fT1w02>>
pD == <<(<<junk, anat>>), fX>>
pE == <<(<<zzz, anat>>), fT1w09>>
\* <subject>/<file>
sA == <<(<<sub01>>), fStepA01>>
sB == <<(<<sub01>>), fStepB01>>
sC == <<(<<sub02>>), fStepA02>>
sD == <<(<<junk>>), fXnii>>
\* <subject>/<session>/<modality>/<file>
mA == <<(<<sub01, ses01, anat>>), fSes0101>>
mB == <<(<<sub02, ses01, anat>>), fSes0201>>
mC == <<(<<sub01, ses02, func>>), fSes0102>>
mD == <<(<<sub01, junk, anat>>), fX>>

Trees ==
    { Tree({}, {}),
      Tree({<<(<<>>), fReadme>>}, {}),
      Tree({pA}, {}), Tree({pA, pB}, {}), Tree({pA, pC}, {}), Tree({pA, pB, pC}, {}),
      Tree({pA, pD}, {}), Tree({pA, pC, pD}, {}), Tree({pA, pE}, {}),
      Tree({pA, pB, pD}, {}),
      Tree({sA}, {}), Tree({sA, sB, sC}, {}), Tree({sA, sD}, {}),
      Tree({mA, mB}, {}), Tree({mA, mB, mC}, {}), Tree({mA, mD}, {}),
      Tree({<<(<<sub01, ses01, anat, extra>>), fXnii>>}, {}),
      Tree({}, {<<sub01, ses01, anat, extra>>}),
      Tree({}, {<<sub01, anat>>}),
      Tree({sA}, {<<sub01, anat>>}),
      Tree({<<(<<sub01, anat>>), fReadme>>}, {}),
      Tree({pA}, {<<sub02>>}),
      Tree({<<(<<aHb, cName, mName>>), fXnii>>, <<(<<aName, bHc, mName>>), fYnii>>}, {}) }

Args(subject, session, modal, annotation, regex, regex_ignore, ext) ==
    [subject |-> subject, session |-> session, modal |-> modal,
     annotation |-> annotation, regex |-> regex,
     regex_ignore |-> regex_ignore, ext |-> ext]

NoArgs == Args(NoArg, NoArg, NoArg, NoArg, NoArg, NoArg, NoArg)

FilterArgs ==
    { NoArgs,
      [NoArgs EXCEPT !.subject = StrArg(sub01)],
      [NoArgs EXCEPT !.subject = ListArg(<<sub01, sub02>>)],
      [NoArgs EXCEPT !.subject = ListArg(<<>>)],
      [NoArgs EXCEPT !.session = StrArg(ses01)],
      [NoArgs EXCEPT !.modal = StrArg(anat)],
      [NoArgs EXCEPT !.annotation = StrArg(data)],
      [NoArgs EXCEPT !.ext = StrArg(extNiiGz)],
      [NoArgs EXCEPT !.regex = StrArg(sub01)],
      [NoArgs EXCEPT !.regex_ignore = StrArg(sub01)],
      [NoArgs EXCEPT !.subject = StrArg(sub01), !.ext = StrArg(extNiiGz)] }

-----------------------------------------------------------------------------
(* The facades                                                             *)

\* A dataset object.  has_ids says whether the attributes subjects, sessions
\* and modals were ever assigned (BaseParser declares them without a value).
Facade(cls, max_depth, has_ids, subjects, sessions, modals, file_list, session_list) ==
    [cls |-> cls, max_depth |-> max_depth, has_ids |-> has_ids,
     subjects |-> subjects, sessions |-> sessions, modals |-> modals,
     file_list |-> file_list, session_list |-> session_list]

RefOf(cls) == IF cls = "RawDataset" THEN RawRef ELSE StepRef

ModalOf(cls) == cls = "RawDataset"

\* RawDataset._validate and StepDataset._validate (lines 726 and 825): the
\* facade's attributes as assigned from the tuple _validator returns.
AssignValidated(r) ==
    [sessions |-> r.subjects, subjects |-> r.sessions, modals |-> r.modals]

\* The facade a successful __init__ without inherits leaves: the attributes
\* _validate assigned (when it ran) and the lists _construct assigned.
Constructed(cls, validate, max_depth, ids, c) ==
    Facade(cls, max_depth, validate, ids.subjects, ids.sessions, ids.modals,
           c.file_list, c.session_list)

\* The end of __init__: status is the error raised, or "ok".
EndInit(cls, validate, max_depth, v, c, status) ==
    /\ walks' = walks + 1
    /\ warnings' = v.warned
    /\ outcome' = [op |-> "construct", status |-> status, cls |-> cls,
                   validate |-> validate, src |-> 0, args |-> NoArgs,
                   validated |-> v.status = "ok" /\ validate, returned |-> v.result,
                   options |-> DefaultOptions, result |-> <<>>]
    /\ IF status = "ok"
       THEN /\ heap' = c.heap
            /\ facades' = <<Constructed(cls, validate, max_depth, AssignValidated(v.result), c)>>
            /\ origin' = <<[parent |-> 0, args |-> NoArgs, validate |-> validate]>>
       ELSE UNCHANGED <<heap, facades, origin>>
    /\ UNCHANGED <<tree, schedVars>>

\* v is what _validate did (nothing when validate is false), c what _construct did.
RunInit(cls, validate, max_depth, v, c) ==
    EndInit(cls, validate, max_depth, v, c, IF v.status /= "ok" THEN v.status ELSE c.status)

Validated(cls, validate, p, order) ==
    IF validate
    THEN validator(p.dirs, p.files, p.max_depth, RefOf(cls), ModalOf(cls), order)
    ELSE [status |-> "ok", result |-> NoResult, warned |-> <<>>]

Parsed(cls, validate, p, order) ==
    RunInit(cls, validate, p.max_depth,
            Validated(cls, validate, p, order),
            constructor(heap, p.files, p.max_depth, RefOf(cls), ModalOf(cls), order))

\* RawDataset.__init__ and StepDataset.__init__ without inherits: the walk,
\* the validation when asked for, the construction.
Construct(cls, validate, order) == Parsed(cls, validate, ParseAll(tree), order)

\* The keys of files.by_depth[max_depth], none when there is no such depth
MaxDepthKeys(p) == IF p.max_depth \in DOMAIN p.files THEN DOMAIN p.files[p.max_depth] ELSE {}

RawDatasetInit ==
    /\ outcome.op = "none"
    /\ \E validate \in BOOLEAN :
        \E order \in WalkOrders(MaxDepthKeys(ParseAll(tree))) :
            Construct("RawDataset", validate, order)

StepDatasetInit ==
    /\ outcome.op = "none"
    /\ \E validate \in BOOLEAN :
        \E order \in WalkOrders(MaxDepthKeys(ParseAll(tree))) :
            Construct("StepDataset", validate, order)

\* A facade that adopts the filtered lists and no identifier list
InheritedListsOnly(cls, max_depth, d, f) ==
    Facade(cls, max_depth, TRUE, NoneList, NoneList, NoneList,
           f.file_list, f.session_list)

\* The facade filter returns: built with validate=False and the bundle of the
\* source's subjects, sessions, modals and the filtered lists.
Inherited(cls, max_depth, d, f) ==
    Facade(cls, max_depth, TRUE, d.subjects, d.sessions, d.modals,
           f.file_list, f.session_list)

\* The end of filter on facade number i, f being what _filter returned.
EndFilter(cls, i, a, d, f) ==
    /\ IF d.has_ids
       THEN /\ heap' = f.heap
            /\ walks' = walks + 1
            /\ facades' = Append(facades, Inherited(cls, MaxDepthOf(tree), d, f))
            /\ origin' = Append(origin, [parent |-> i, args |-> a, validate |-> FALSE])
            /\ outcome' = [op |-> "filter", status |-> "ok", cls |-> cls,
                           validate |-> FALSE, src |-> i, args |-> a,
                           validated |-> FALSE, returned |-> NoResult,
                  options |-> DefaultOptions, result |-> <<>>]
       ELSE /\ outcome' = [op |-> "filter", status |-> "AttributeError", cls |-> cls,
                           validate |-> FALSE, src |-> i, args |-> a,
                           validated |-> FALSE, returned |-> NoResult,
                  options |-> DefaultOptions, result |-> <<>>]
            /\ UNCHANGED <<heap, walks, facades, origin>>
    /\ UNCHANGED <<tree, warnings, schedVars>>

\* RawDataset.filter and StepDataset.filter on facade number i: _filter, the
\* Inherits bundle, and a new facade built with validate=False and the bundle
\* (__init__ walks the directory again, which measures max_depth and rebuilds
\* the by-depth indexes nothing reads afterwards; then _inherits adopts the
\* bundle).  When the source facade has no subjects attribute, reading it for
\* the bundle raises AttributeError and the objects _filter made are dropped.
Filter(cls, i, a) ==
    /\ i \in DOMAIN facades
    /\ facades[i].cls = cls
    /\ Len(facades) < MaxFacades
    /\ EndFilter(cls, i, a, facades[i],
                 filter(heap, facades[i].file_list, facades[i].session_list, a))

RawDatasetFilter == \E i \in DOMAIN facades : \E a \in FilterArgs : Filter("RawDataset", i, a)

StepDatasetFilter == \E i \in DOMAIN facades : \E a \in FilterArgs : Filter("StepDataset", i, a)

\* The arguments modify is called with
ModifyOptions ==
    { DefaultOptions,
      [DefaultOptions EXCEPT !.absdir = BoolArg(TRUE)],
      [DefaultOptions EXCEPT !.absdir = StrArg(<<"/", "o", "u", "t">>)],
      [DefaultOptions EXCEPT !.prefix = StrArg(<<"r">>), !.absdir = BoolArg(TRUE)],
      [DefaultOptions EXCEPT !.suffix = StrArg(<<"_", "m">>), !.ext = StrArg(<<".", "n", "i", "i">>)],
      [DefaultOptions EXCEPT !.replace = Replace(<<"s", "u", "b">>, <<"s">>)] }

\* FileItem.modify called on the FileItem id with the arguments o: it returns
\* a str and changes nothing else.
FileItemModify ==
    \E id \in DOMAIN heap.files : \E o \in ModifyOptions :
        /\ outcome' = [op |-> "modify", status |-> "ok", cls |-> "FileItem",
                       validate |-> FALSE, src |-> id, args |-> NoArgs,
                       validated |-> FALSE, returned |-> NoResult,
                       options |-> o, result |-> modify(heap.files[id], o)]
        /\ UNCHANGED <<tree, heap, facades, origin, walks, warnings, schedVars>>

-----------------------------------------------------------------------------
(* The Scheduler (src/nip/scheduler.py): a thread that runs an asyncio     *)
(* event loop.  Other threads hand it work through run_coroutine_threadsafe *)
(* which appends a callback to the loop's ready queue; the loop runs the   *)
(* callbacks in the order they were appended, once it is running.          *)
(*                                                                         *)
(* thread is "new" before start(), "started" when the thread is alive and  *)
(* the loop is not yet running, "running" while run_until_complete runs    *)
(* the loop, "exiting" when the loop has stopped and run() has not yet     *)
(* returned, "finished" when the thread has ended.  pc is the position of  *)
(* the thread that calls start() and stop().                               *)

\* The number of queue_item calls and of stop calls in a behaviour
MaxItems == 3

MaxStops == 2

\* What queue_item is called with: "msg" a value other than 0 that is no
\* tuple, "zero" the value 0, "coro" a tuple of a coroutine function and its
\* arguments, "call" a tuple of a function that returns, "fail" a tuple of a
\* function that raises.
Items == {"msg", "zero", "coro", "call", "fail"}

\* A callback of the ready queue: the coroutine queue.put(item), handed over
\* by the caller by, or a coroutine an item named
PutCallback(item, by) == [kind |-> "put", item |-> item, by |-> by]

CoroCallback == [kind |-> "coro", item |-> "none", by |-> "loop"]

\* Scheduler.__init__: a new loop, an empty queue, the thread not started
SchedulerInit ==
    /\ thread = "new"
    /\ loop_ready = <<>>
    /\ queue = <<>>
    /\ awaiting = "get"
    /\ taken = <<>>
    /\ pc = "idle"
    /\ enqueued = <<>>
    /\ before = 0
    /\ stops = 0

\* self.loop.is_running(): true while run_until_complete runs the loop
is_running == thread = "running"

\* self.is_alive(): true from start() until run() has returned
is_alive == thread \in {"started", "running", "exiting"}

\* _run_coro: asyncio.run_coroutine_threadsafe(coro, self.loop) appends a
\* callback to the ready queue of the loop, whether or not the loop runs,
\* and returns without waiting for it.
run_coro(callback) == loop_ready' = Append(loop_ready, callback)

\* Thread.start(): returns once the new thread is alive; the thread has not
\* necessarily entered run() by then.
start ==
    /\ pc = "idle"
    /\ thread = "new"
    /\ thread' = "started"
    /\ UNCHANGED <<dataVars, loop_ready, queue, awaiting, taken, pc, enqueued, before, stops>>

\* run (line 43): the thread enters run_until_complete, the loop is running.
run ==
    /\ thread = "started"
    /\ thread' = "running"
    /\ UNCHANGED <<dataVars, loop_ready, queue, awaiting, taken, pc, enqueued, before, stops>>

\* queue_item(item), called from any thread on a started scheduler.
queue_item ==
    /\ thread /= "new"
    /\ Len(enqueued) < MaxItems
    /\ \E item \in Items :
        /\ run_coro(PutCallback(item, "client"))
        /\ enqueued' = Append(enqueued, item)
    /\ UNCHANGED <<dataVars, thread, queue, awaiting, taken, pc, before, stops>>

\* The running loop runs the first callback of its ready queue: a put
\* appends its item to the queue (the queue is unbounded), a coroutine named
\* by an item runs to its end.
LoopRunsCallback ==
    /\ is_running
    /\ loop_ready /= <<>>
    /\ loop_ready' = Tail(loop_ready)
    /\ queue' = IF Head(loop_ready).kind = "put"
                THEN Append(queue, [item |-> Head(loop_ready).item, by |-> Head(loop_ready).by])
                ELSE queue
    /\ UNCHANGED <<dataVars, thread, awaiting, taken, pc, enqueued, before, stops>>

\* _event_loop (lines 23-37), one turn of the while loop: queue.get()
\* returns the first item of the queue; a coroutine function is handed to
\* _run_coro and not awaited, a function is awaited in the executor, 0 breaks
\* the loop, anything else is printed.
event_loop ==
    /\ is_running
    /\ awaiting = "get"
    /\ queue /= <<>>
    /\ queue' = Tail(queue)
    /\ taken' = Append(taken, Head(queue))
    /\ loop_ready' = IF Head(queue).item = "coro"
                     THEN Append(loop_ready, CoroCallback)
                     ELSE loop_ready
    /\ awaiting' = IF Head(queue).item \in {"call", "fail"} THEN Head(queue).item ELSE "get"
    /\ thread' = IF Head(queue).item = "zero" THEN "exiting" ELSE thread
    /\ UNCHANGED <<dataVars, pc, enqueued, before, stops>>

\* Line 31, the end of the await: the function returned and the while loop
\* goes on, or it raised and the exception ends _event_loop and with it
\* run_until_complete.
executor_done ==
    /\ is_running
    /\ awaiting \in {"call", "fail"}
    /\ awaiting' = "get"
    /\ thread' = IF awaiting = "fail" THEN "exiting" ELSE thread
    /\ UNCHANGED <<dataVars, loop_ready, queue, taken, pc, enqueued, before, stops>>

\* run() returns (or ends with the exception) and the thread ends.
thread_exit ==
    /\ thread = "exiting"
    /\ thread' = "finished"
    /\ UNCHANGED <<dataVars, loop_ready, queue, awaiting, taken, pc, enqueued, before, stops>>

\* stop() is called on a started scheduler; before is the number of items
\* enqueued before the first call.
stop ==
    /\ pc = "idle"
    /\ thread /= "new"
    /\ stops < MaxStops
    /\ pc' = "stop_event_loop"
    /\ stops' = stops + 1
    /\ before' = IF stops = 0 THEN Len(enqueued) ELSE before
    /\ UNCHANGED <<dataVars, thread, loop_ready, queue, awaiting, taken, enqueued>>

\* _stop_event_loop, line 49: the test of self.loop.is_running()
stop_event_loop ==
    /\ pc = "stop_event_loop"
    /\ pc' = IF is_running THEN "put_stop" ELSE "stop_thread"
    /\ UNCHANGED <<dataVars, thread, loop_ready, queue, awaiting, taken, enqueued, before, stops>>

\* _stop_event_loop, line 50: self._run_coro(self.queue.put(0))
put_stop ==
    /\ pc = "put_stop"
    /\ run_coro(PutCallback("zero", "stop"))
    /\ pc' = "stop_thread"
    /\ UNCHANGED <<dataVars, thread, queue, awaiting, taken, enqueued, before, stops>>

\* _stop_thread, line 53: the test of self.is_alive()
stop_thread ==
    /\ pc = "stop_thread"
    /\ pc' = IF is_alive THEN "join" ELSE "idle"
    /\ UNCHANGED <<dataVars, thread, loop_ready, queue, awaiting, taken, enqueued, before, stops>>

\* _stop_thread, line 54: self.join() returns when the thread has ended, and
\* stop() returns.
join ==
    /\ pc = "join"
    /\ thread = "finished"
    /\ pc' = "idle"
    /\ UNCHANGED <<dataVars, thread, loop_ready, queue, awaiting, taken, enqueued, before, stops>>

-----------------------------------------------------------------------------
(* The specifications                                                      *)

Init ==
    /\ SchedulerInit
    /\ tree \in Trees
    /\ heap = EmptyHeap
    /\ facades = <<>>
    /\ origin = <<>>
    /\ walks = 0
    /\ warnings = <<>>
    /\ outcome = [op |-> "none", status |-> "ok", cls |-> "none",
                  validate |-> FALSE, src |-> 0, args |-> NoArgs,
                  validated |-> FALSE, returned |-> NoResult,
                  options |-> DefaultOptions, result |-> <<>>]

Next ==
    \/ RawDatasetInit
    \/ StepDatasetInit
    \/ RawDatasetFilter
    \/ StepDatasetFilter

Spec == Init /\ [][Next]_vars

\* The FileItems a construction builds, and modify called on them (filter
\* builds no FileItem)
NextFileItem ==
    \/ RawDatasetInit
    \/ StepDatasetInit
    \/ FileItemModify

SpecFileItem == Init /\ [][NextFileItem]_vars

\* The Scheduler alone, no dataset object being built
InitScheduler == Init /\ tree = Tree({}, {})

NextScheduler ==
    \/ start
    \/ run
    \/ queue_item
    \/ LoopRunsCallback
    \/ event_loop
    \/ executor_done
    \/ thread_exit
    \/ stop
    \/ stop_event_loop
    \/ put_stop
    \/ stop_thread
    \/ join

\* The scheduler thread and the thread inside stop() keep running when they
\* can take a step; nothing obliges a caller to call start, queue_item or
\* stop.
FairScheduler ==
    /\ WF_vars(run)
    /\ WF_vars(LoopRunsCallback)
    /\ WF_vars(event_loop)
    /\ WF_vars(executor_done)
    /\ WF_vars(thread_exit)
    /\ WF_vars(stop_event_loop)
    /\ WF_vars(put_stop)
    /\ WF_vars(stop_thread)
    /\ WF_vars(join)

SpecScheduler == InitScheduler /\ [][NextScheduler]_vars /\ FairScheduler

-----------------------------------------------------------------------------
(* What a facade shows: its records by value                               *)

\* The FileItems of a list of ids
FileContent(h, ids) == [i \in DOMAIN ids |-> h.files[ids[i]]]

\* The files of a SessionItem by value: a dict as a mapping from its keys
DictContent(h, d) ==
    [k \in {d.keys[i] : i \in DOMAIN d.keys} |-> FileContent(h, h.lists[DictGet(d, k)])]

FilesContent(h, ref) ==
    IF ref.tag = "dict"
    THEN [tag |-> "dict", map |-> DictContent(h, h.dicts[ref.id]), items |-> <<>>]
    ELSE [tag |-> "list", map |-> <<>>, items |-> FileContent(h, h.lists[ref.id])]

SessionContent(h, sid) ==
    [subject |-> h.sess[sid].subject, session |-> h.sess[sid].session,
     files |-> FilesContent(h, h.sess[sid].files)]

SessionListContent(h, ids) == [i \in DOMAIN ids |-> SessionContent(h, ids[i])]

FacadeContent(h, file_list, session_list) ==
    [file_list |-> FileContent(h, file_list),
     session_list |-> SessionListContent(h, session_list)]

\* The ids of the FileItems held by a SessionItem, over all its buckets
SessionFileIds(h, sid) ==
    IF h.sess[sid].files.tag = "dict"
    THEN Flatten([i \in DOMAIN h.dicts[h.sess[sid].files.id].refs |->
                    h.lists[h.dicts[h.sess[sid].files.id].refs[i]]])
    ELSE h.lists[h.sess[sid].files.id]

SessionListFileIds(h, ids) == Flatten([i \in DOMAIN ids |-> SessionFileIds(h, ids[i])])

Count(l, x) == Cardinality({i \in DOMAIN l : l[i] = x})

SameCollection(l1, l2) ==
    \A x \in {l1[i] : i \in DOMAIN l1} \cup {l2[i] : i \in DOMAIN l2} :
        Count(l1, x) = Count(l2, x)

\* A step in which filter returned a facade
FilterReturned == Len(facades) >= 1 /\ Len(facades') = Len(facades) + 1

-----------------------------------------------------------------------------
(* Properties                                                               *)

\* The depth of the deepest leaf directory of a tree
DeepestLeaf(t) == Max({0} \cup {Len(d) : d \in {e \in AllDirs(t) : DirNames(t, e) = {}}})

AcceptedDepths(cls) == IF cls = "RawDataset" THEN {2, 3} ELSE {1, 2}

\* C1: a validated construction ends with the structural depth error exactly
\* when the depth of the deepest leaf directory is not one of the two depths
\* the variant accepts, {2, 3} for RawDataset and {1, 2} for StepDataset.
C1_DepthErrorIff ==
    (outcome.op = "construct" /\ outcome.validate)
        => ((outcome.status = "DepthError")
                <=> (DeepestLeaf(tree) \notin AcceptedDepths(outcome.cls)))

\* A validated RawDataset construction on a tree of depth 1, which StepDataset
\* accepts, ended with the depth error.
C1_Witness ==
    /\ outcome.op = "construct" /\ outcome.validate
    /\ outcome.cls = "RawDataset"
    /\ DeepestLeaf(tree) = 1
    /\ outcome.status = "DepthError"

\* C2: in every facade, built or returned by filter, the records held by the
\* sessions of session_list, over all their buckets, are the records of
\* file_list, each as often.
C2_ListsHoldSameRecords ==
    \A i \in DOMAIN facades :
        SameCollection(SessionListFileIds(heap, facades[i].session_list),
                       facades[i].file_list)

\* A facade returned by a filter on the extension that kept some of the
\* records of its source and removed others.
C2_Witness ==
    \E i \in DOMAIN facades :
        /\ origin[i].parent >= 1
        /\ Truthy(origin[i].args.ext)
        /\ facades[i].file_list /= <<>>
        /\ Len(facades[i].file_list) < Len(facades[origin[i].parent].file_list)

\* Every object of the heap before the step is the same after it
HeapKept ==
    /\ SubSeq(heap'.sess, 1, Len(heap.sess)) = heap.sess
    /\ SubSeq(heap'.lists, 1, Len(heap.lists)) = heap.lists
    /\ SubSeq(heap'.dicts, 1, Len(heap.dicts)) = heap.dicts
    /\ SubSeq(heap'.files, 1, Len(heap.files)) = heap.files

\* C3: when filter returns, file_list and session_list of every facade there
\* was, and every SessionItem, list, dict and FileItem there was, are what they
\* were before the call.
C3_FilterKeepsInputs ==
    [][FilterReturned =>
          /\ \A i \in DOMAIN facades : facades'[i] = facades[i]
          /\ HeapKept]_vars

\* A filter returned a facade in which a session holds fewer records than the
\* session of its source it was copied from.
C3_Witness ==
    \E i \in DOMAIN facades :
        /\ origin[i].parent >= 1
        /\ \E n \in DOMAIN facades[i].session_list :
             \E m \in DOMAIN facades[origin[i].parent].session_list :
                /\ heap.sess[facades[i].session_list[n]].subject
                     = heap.sess[facades[origin[i].parent].session_list[m]].subject
                /\ Len(SessionFileIds(heap, facades[i].session_list[n]))
                     < Len(SessionFileIds(heap, facades[origin[i].parent].session_list[m]))

\* C4: no walk of the directory happens between the call of filter and its
\* return.
C4_FilterWalksNothing ==
    [][FilterReturned => walks' = walks]_vars

\* C5: filter on a constructed facade, however it was built, returns a new
\* constructed facade and leaves the source as it was.
C5_FilterAlwaysReturns ==
    [][(outcome'.op = "filter" /\ outcome' /= outcome)
          => /\ outcome'.status = "ok"
             /\ Len(facades') = Len(facades) + 1
             /\ \A i \in DOMAIN facades : facades'[i] = facades[i]]_vars

\* What facade i shows
ContentOf(i) == FacadeContent(heap, facades[i].file_list, facades[i].session_list)

\* What the result of a _filter call shows
ContentOfResult(r) == FacadeContent(r.heap, r.file_list, r.session_list)

\* C6: filter with no arguments returns a facade whose file_list and
\* session_list are equal in content to those of the facade it was called on.
C6_NoArgumentsSameContent ==
    (outcome.op = "filter" /\ outcome.args = NoArgs)
        => /\ outcome.status = "ok"
           /\ ContentOf(Len(facades)) = ContentOf(outcome.src)

\* Facade j came from facade ParentOf(j) by filter(ArgsOf(j)); 0 for a facade
\* built from the directory.
ParentOf(j) == origin[j].parent

ArgsOf(j) == origin[j].args

\* C7: d.filter(P).filter(P) shows the same file_list and session_list as
\* d.filter(P).
C7_FilterIdempotent ==
    \A j \in DOMAIN facades :
        (/\ ParentOf(j) >= 1
         /\ ParentOf(ParentOf(j)) >= 1
         /\ ArgsOf(j) = ArgsOf(ParentOf(j)))
            => ContentOf(j) = ContentOf(ParentOf(j))

\* d.filter(P).filter(P) was built, for a P that removes some records of d
\* and keeps others.
C7_Witness ==
    \E j \in DOMAIN facades :
        /\ ParentOf(j) >= 1
        /\ ParentOf(ParentOf(j)) >= 1
        /\ ArgsOf(j) = ArgsOf(ParentOf(j))
        /\ facades[j].file_list /= <<>>
        /\ Len(facades[ParentOf(j)].file_list)
             < Len(facades[ParentOf(ParentOf(j))].file_list)

\* The kinds of predicate a call gives
Given(a) == {k \in DOMAIN a : a[k].kind /= "none"}

\* One call with the predicates of both a and b, of different kinds
Both(a, b) == [k \in DOMAIN a |-> IF a[k].kind /= "none" THEN a[k] ELSE b[k]]

FilterOf(i, a) == filter(heap, facades[i].file_list, facades[i].session_list, a)

ThenFilter(r, a) == filter(r.heap, r.file_list, r.session_list, a)

\* C8: for predicates A and B of different kinds, d.filter(A).filter(B) shows
\* what the single call d.filter(A and B) shows and what d.filter(B).filter(A)
\* shows.
C8_FilterCommutes ==
    \A j \in DOMAIN facades :
        (/\ ParentOf(j) >= 1
         /\ ParentOf(ParentOf(j)) >= 1
         /\ Given(ArgsOf(j)) \cap Given(ArgsOf(ParentOf(j))) = {})
            => /\ ContentOf(j)
                    = ContentOfResult(FilterOf(ParentOf(ParentOf(j)),
                                               Both(ArgsOf(ParentOf(j)), ArgsOf(j))))
               /\ ContentOf(j)
                    = ContentOfResult(ThenFilter(FilterOf(ParentOf(ParentOf(j)), ArgsOf(j)),
                                                 ArgsOf(ParentOf(j))))

\* d.filter(A).filter(B) was built for A and B of different kinds, each of
\* which removed records and together kept some.
C8_Witness ==
    \E j \in DOMAIN facades :
        /\ ParentOf(j) >= 1
        /\ ParentOf(ParentOf(j)) >= 1
        /\ Given(ArgsOf(j)) /= {}
        /\ Given(ArgsOf(ParentOf(j))) /= {}
        /\ Given(ArgsOf(j)) \cap Given(ArgsOf(ParentOf(j))) = {}
        /\ facades[j].file_list /= <<>>
        /\ Len(facades[j].file_list) < Len(facades[ParentOf(j)].file_list)
        /\ Len(facades[ParentOf(j)].file_list)
             < Len(facades[ParentOf(ParentOf(j))].file_list)

\* A predicate as a set of values: a single value is the one-element set
Values(x) == IF x.kind = "str" THEN {x.val} ELSE {x.val[n] : n \in DOMAIN x.val}

ExtComponents(e) == strip_empty_str_in_list(Split(e, "."))

\* A record satisfies the predicates among Kinds: subject, session, modality
\* and annotation in the given set, extension equal component by component,
\* regex matching at the start of the stem, regex_ignore not matching.
Satisfies(f, a, Kinds) ==
    /\ "subject" \in Kinds => f.subject \in Values(a.subject)
    /\ "session" \in Kinds => f.session \in Values(a.session)
    /\ "modal" \in Kinds => f.modal \in Values(a.modal)
    /\ "annotation" \in Kinds => f.annotation \in Values(a.annotation)
    /\ "ext" \in Kinds => ExtComponents(f.fileext) = ExtComponents(a.ext.val)
    /\ "regex" \in Kinds => IsPrefix(a.regex.val, f.filename)
    /\ "regex_ignore" \in Kinds => ~IsPrefix(a.regex_ignore.val, f.filename)

Selected(j, Kinds) ==
    SelectSeq(FileContent(heap, facades[ParentOf(j)].file_list),
              LAMBDA f : Satisfies(f, ArgsOf(j), Kinds))

\* C9 as stated: the file_list filter returns is the records of the source's
\* file_list, in their order, that satisfy every predicate given, a list
\* being the set of its values, so that an empty list keeps no record.
C9_EmptySetKeepsNothing ==
    \A j \in DOMAIN facades :
        ParentOf(j) >= 1
            => FileContent(heap, facades[j].file_list) = Selected(j, Given(ArgsOf(j)))

\* The kinds of predicate a call gives with a value that is not empty
GivenNotEmpty(a) == {k \in DOMAIN a : a[k].kind /= "none" /\ a[k].val /= <<>>}

\* C9: the file_list filter returns is the records of the source's file_list,
\* in their order, that satisfy every predicate given with a value that is not
\* empty; a predicate given as an empty list or an empty string selects as
\* one not given.
C9_SubsequenceOfSatisfying ==
    \A j \in DOMAIN facades :
        ParentOf(j) >= 1
            => FileContent(heap, facades[j].file_list) = Selected(j, GivenNotEmpty(ArgsOf(j)))

\* filter(subject=[]) returned a facade that holds records.
C9_Witness ==
    \E j \in DOMAIN facades :
        /\ ParentOf(j) >= 1
        /\ ArgsOf(j).subject = ListArg(<<>>)
        /\ facades[j].file_list /= <<>>

\* 'sub-' followed by alphanumerics
MatchesSubjectPattern(n) ==
    /\ Len(n) > 4
    /\ SubSeq(n, 1, 4) = <<"s", "u", "b", "-">>
    /\ \A i \in 5..Len(n) : n[i] \in AlnumChars

\* C10: the subject list _validator returns is the names of the directories
\* directly under the root that match the subject pattern, sorted; the names
\* that do not match are left out and the others kept.
C10_ValidatedSubjects ==
    outcome.validated
        => outcome.returned.subjects
             = ListOf(SortedNames({n \in DirNames(tree, <<>>) : MatchesSubjectPattern(n)}))

\* 'ses-' followed by alphanumerics
MatchesSessionPattern(n) ==
    /\ Len(n) > 4
    /\ SubSeq(n, 1, 4) = <<"s", "e", "s", "-">>
    /\ \A i \in 5..Len(n) : n[i] \in AlnumChars

\* The depth at which the variant reads a dataset as multi-session
MultiSessionDepth(cls) == IF cls = "RawDataset" THEN 3 ELSE 2

\* File f of the tree lies at max depth under a subject directory, or in a
\* multi-session tree under a session directory, whose name fails its pattern.
UnderExcludedName(f, cls) ==
    /\ Len(f[1]) = DeepestLeaf(tree)
    /\ Len(f[1]) >= 1
    /\ \/ ~MatchesSubjectPattern(f[1][1])
       \/ /\ DeepestLeaf(tree) = MultiSessionDepth(cls)
          /\ ~MatchesSessionPattern(f[1][2])

\* One of the FileItems ids is the record of file f of the tree
HasRecord(h, ids, f) ==
    \E i \in DOMAIN ids :
        /\ h.files[ids[i]].absdir = DirPath(f[1])
        /\ h.files[ids[i]].filename \o <<".">> \o h.files[ids[i]].fileext = f[2]

\* C11: after a validated construction every file at max depth under a
\* subject or session directory whose name fails the naming pattern has its
\* record in file_list and in a session of session_list.
C11_ExcludedNamesKeepFiles ==
    (outcome.op = "construct" /\ outcome.validate /\ outcome.status = "ok")
        => \A f \in tree.files :
              UnderExcludedName(f, outcome.cls)
                 => /\ HasRecord(heap, facades[1].file_list, f)
                    /\ HasRecord(heap, SessionListFileIds(heap, facades[1].session_list), f)

\* A validated construction succeeded on a tree that holds a file under a
\* directory whose name fails the pattern, next to a subject that passes it.
C11_Witness ==
    /\ outcome.op = "construct" /\ outcome.validate /\ outcome.status = "ok"
    /\ \E f \in tree.files : UnderExcludedName(f, outcome.cls)
    /\ \E f \in tree.files : Len(f[1]) >= 1 /\ MatchesSubjectPattern(f[1][1])

\* The names of the directories at the second level of the tree
SecondLevelNames(t) == {d[2] : d \in {e \in AllDirs(t) : Len(e) = 2}}

\* C12: a validated construction of a multi-session tree succeeds, and the
\* session list _validator returns is the second-level directory names that
\* match the session pattern, sorted.
C12_MultiSessionValidates ==
    (/\ outcome.op = "construct" /\ outcome.validate
     /\ DeepestLeaf(tree) = MultiSessionDepth(outcome.cls))
        => /\ outcome.status = "ok"
           /\ outcome.returned.sessions
                = ListOf(SortedNames({n \in SecondLevelNames(tree) : MatchesSessionPattern(n)}))

\* C13: after a validated construction the facade's subjects, sessions and
\* modals are the subject list, the session list and the modality list
\* _validator returned; for a single-session tree sessions is None and
\* subjects is a list.
C13_AttributesUnderOwnNames ==
    (outcome.op = "construct" /\ outcome.validate /\ outcome.status = "ok")
        => /\ facades[1].subjects = outcome.returned.subjects
           /\ facades[1].sessions = outcome.returned.sessions
           /\ facades[1].modals = outcome.returned.modals
           /\ DeepestLeaf(tree) = RefOf(outcome.cls).single_session
                => (facades[1].sessions.none /\ ~facades[1].subjects.none)

\* How often a warning of kind what was issued for name
TimesWarned(what, name) ==
    Cardinality({i \in DOMAIN warnings : warnings[i] = [what |-> what, name |-> name]})

OnceIf(cond) == IF cond THEN 1 ELSE 0

\* C14: a validation that returned issued one naming warning for each
\* subject directory name that fails the subject pattern and none for a name
\* that matches; the same for the session directory names of a multi-session
\* tree.
C14_WarnedIffNameFails ==
    outcome.validated
        => /\ \A n \in DirNames(tree, <<>>) :
                TimesWarned("subject", n) = OnceIf(~MatchesSubjectPattern(n))
           /\ DeepestLeaf(tree) = MultiSessionDepth(outcome.cls)
                => \A n \in SecondLevelNames(tree) :
                      TimesWarned("session", n) = OnceIf(~MatchesSessionPattern(n))

\* 'sub-<alnum>(_ses-<alnum>)?...': what follows the subject label is free
MatchesFilePattern(n) ==
    /\ Len(n) > 4
    /\ SubSeq(n, 1, 4) = <<"s", "u", "b", "-">>
    /\ n[5] \in AlnumChars

\* The path a file warning names: the directory below the root, then the file
WarnedPath(f) == Join(f[1], "/") \o <<"/">> \o f[2]

\* C15: a validation that returned issued a file-naming warning for a file at
\* max depth exactly when its name fails the file pattern, so none for the
\* compliant files of a tree that also holds a non-compliant one; every file
\* at max depth has its record in file_list.
C15_FileWarnedIffNameFails ==
    outcome.validated
        => \A f \in tree.files :
              Len(f[1]) = DeepestLeaf(tree)
                 => /\ TimesWarned("file", WarnedPath(f)) = OnceIf(~MatchesFilePattern(f[2]))
                    /\ outcome.status = "ok" => HasRecord(heap, facades[1].file_list, f)

\* The list objects a SessionItem's files reaches: the list itself, or the
\* lists stored in the dict
SessionLists(h, sid) ==
    IF h.sess[sid].files.tag = "dict"
    THEN {h.dicts[h.sess[sid].files.id].refs[i] : i \in DOMAIN h.dicts[h.sess[sid].files.id].refs}
    ELSE {h.sess[sid].files.id}

\* The list objects and the FileItem objects reachable from facade i
ListsOf(i) ==
    UNION {SessionLists(heap, facades[i].session_list[n]) : n \in DOMAIN facades[i].session_list}

RecordsOf(i) ==
    {facades[i].file_list[n] : n \in DOMAIN facades[i].file_list}
        \cup {SessionListFileIds(heap, facades[i].session_list)[n] :
                n \in DOMAIN SessionListFileIds(heap, facades[i].session_list)}

\* C16: no list of files and no record reachable from a facade filter
\* returned is the same object as one reachable from the facade it was called
\* on.
C16_NothingShared ==
    \A j \in DOMAIN facades :
        ParentOf(j) >= 1
            => /\ ListsOf(j) \cap ListsOf(ParentOf(j)) = {}
               /\ RecordsOf(j) \cap RecordsOf(ParentOf(j)) = {}

\* The files of the tree at max depth
FilesAtMaxDepth == {f \in tree.files : Len(f[1]) = DeepestLeaf(tree)}

\* The (subject, session) pair of a file at max depth
PairOf(f, cls) ==
    <<f[1][1], IF DeepestLeaf(tree) = MultiSessionDepth(cls) THEN f[1][2] ELSE None>>

\* The SessionItems of facade i that carry the pair
SessionsOfPair(i, pair) ==
    {n \in DOMAIN facades[i].session_list :
        /\ heap.sess[facades[i].session_list[n]].subject = pair[1]
        /\ heap.sess[facades[i].session_list[n]].session = pair[2]}

\* _constructor is called, on a tree of an accepted depth that has files at
\* max depth, each with a dot in its name
ConstructorReached ==
    /\ outcome.op = "construct"
    /\ outcome.validate => outcome.validated
    /\ DeepestLeaf(tree) \in AcceptedDepths(outcome.cls)
    /\ FilesAtMaxDepth /= {}
    /\ \A f \in FilesAtMaxDepth : \E i \in DOMAIN f[2] : f[2][i] = "."

\* C17: construction gives one SessionItem for each (subject, session) pair
\* that has files at max depth, holding the records of all files of the pair,
\* whatever characters the names contain.
C17_OneSessionPerPair ==
    ConstructorReached
        => /\ outcome.status = "ok"
           /\ \A f \in FilesAtMaxDepth :
                /\ Cardinality(SessionsOfPair(1, PairOf(f, outcome.cls))) = 1
                /\ \A n \in SessionsOfPair(1, PairOf(f, outcome.cls)) :
                      HasRecord(heap, SessionFileIds(heap, facades[1].session_list[n]), f)
           /\ \A n \in DOMAIN facades[1].session_list :
                \E f \in FilesAtMaxDepth : n \in SessionsOfPair(1, PairOf(f, outcome.cls))

\* A list of keys in non-decreasing order
NonDecreasing(keys) ==
    \A i, j \in DOMAIN keys : i < j => ~TupleLess(keys[j], keys[i])

SessionKeys(ids) ==
    [n \in DOMAIN ids |-> <<heap.sess[ids[n]].subject, heap.sess[ids[n]].session>>]

FlatKeys(ids) ==
    [n \in DOMAIN ids |->
        <<heap.files[ids[n]].subject, heap.files[ids[n]].session, heap.files[ids[n]].modal,
          heap.files[ids[n]].filename, heap.files[ids[n]].fileext>>]

StemKeys(ids) ==
    [n \in DOMAIN ids |-> <<heap.files[ids[n]].filename, heap.files[ids[n]].fileext>>]

\* C18: in every facade, built or returned by filter, session_list is sorted
\* by (subject, session), file_list by (subject, session, modality, stem,
\* extension), and every list of files of a session by (stem, extension).
C18_ListsSorted ==
    \A i \in DOMAIN facades :
        /\ NonDecreasing(SessionKeys(facades[i].session_list))
        /\ NonDecreasing(FlatKeys(facades[i].file_list))
        /\ \A n \in DOMAIN facades[i].session_list :
              \A l \in SessionLists(heap, facades[i].session_list[n]) :
                  NonDecreasing(StemKeys(heap.lists[l]))

\* A facade returned by filter holds several sessions and a session with
\* several files in one list.
C18_Witness ==
    \E i \in DOMAIN facades :
        /\ ParentOf(i) >= 1
        /\ Len(facades[i].session_list) >= 2
        /\ \E n \in DOMAIN facades[i].session_list :
              \E l \in SessionLists(heap, facades[i].session_list[n]) :
                  Len(heap.lists[l]) >= 2

\* containingDir + separator + stem + "." + extension
FullPath(f) == f.absdir \o <<"/">> \o f.filename \o <<".">> \o f.fileext

\* C19 as stated: modify called with every argument at its default returns
\* the full path of the record.
C19_DefaultPathIsFullPath ==
    (outcome.op = "modify" /\ outcome.options = DefaultOptions)
        => outcome.result = FullPath(heap.files[outcome.src])

\* C19: modify called with every argument at its default returns the base
\* name of the record, stem + "." + extension; called with absdir=True alone
\* it returns the full path, which is also what abspath gives.
C19_DefaultPathIsBaseName ==
    /\ (outcome.op = "modify" /\ outcome.options = DefaultOptions)
          => outcome.result
               = heap.files[outcome.src].filename \o <<".">> \o heap.files[outcome.src].fileext
    /\ (outcome.op = "modify" /\ outcome.options = [DefaultOptions EXCEPT !.absdir = BoolArg(TRUE)])
          => /\ outcome.result = FullPath(heap.files[outcome.src])
             /\ abspath(heap.files[outcome.src]) = FullPath(heap.files[outcome.src])

\* modify was called with its defaults on a record whose extension has two
\* parts.
C19_Witness ==
    /\ outcome.op = "modify"
    /\ outcome.options = DefaultOptions
    /\ heap.files[outcome.src].fileext = extNiiGz

\* C20: a construction without validation on a tree whose max depth is not
\* one of the depths the variant accepts ends with the depth error, whether
\* or not a file lies at max depth.
C20_UnvalidatedDepthError ==
    (/\ outcome.op = "construct" /\ ~outcome.validate
     /\ DeepestLeaf(tree) \notin AcceptedDepths(outcome.cls))
        => outcome.status = "DepthError"

\* The kinds of predicate tested on a file alone
PerFileKinds == {"modal", "annotation", "regex", "regex_ignore", "ext"}

\* The kinds of predicate tested on a session
PerSessionKinds == {"subject", "session"}

\* The sessions of the source of facade j that pass the subject and session
\* predicates of the call, in the source's order
KeptSessions(j) ==
    SelectSeq(SessionListContent(heap, facades[ParentOf(j)].session_list),
              LAMBDA x : Satisfies(x, ArgsOf(j), GivenNotEmpty(ArgsOf(j)) \cap PerSessionKinds))

\* The records of a list that pass the per-file predicates of a call
Passing(items, a) ==
    SelectSeq(items, LAMBDA f : Satisfies(f, a, GivenNotEmpty(a) \cap PerFileKinds))

\* A modality mapping with every bucket reduced to its passing records and
\* the buckets left empty removed
PassingBuckets(map, a) ==
    [m \in {k \in DOMAIN map : Passing(map[k], a) /= <<>>} |-> Passing(map[m], a)]

\* The session records of facade j by value
SessionsOf(j) == SessionListContent(heap, facades[j].session_list)

\* C21: in every facade, no modality mapping of a session holds an empty
\* bucket; after filter, the mapping of every returned session is the mapping
\* of its source session with each bucket reduced to the records that pass
\* the per-file predicates and the buckets left empty removed.
C21_NoEmptyBucket ==
    \A j \in DOMAIN facades :
        \A k \in DOMAIN SessionsOf(j) :
            SessionsOf(j)[k].files.tag = "dict"
                => /\ \A m \in DOMAIN SessionsOf(j)[k].files.map :
                          SessionsOf(j)[k].files.map[m] /= <<>>
                   /\ ParentOf(j) >= 1
                        => /\ k \in DOMAIN KeptSessions(j)
                           /\ KeptSessions(j)[k].files.tag = "dict"
                           /\ SessionsOf(j)[k].files.map
                                = PassingBuckets(KeptSessions(j)[k].files.map, ArgsOf(j))

\* filter returned a session that lost one bucket of its source session and
\* kept another.
C21_Witness ==
    \E j \in DOMAIN facades :
        /\ ParentOf(j) >= 1
        /\ \E k \in DOMAIN SessionsOf(j) :
            /\ SessionsOf(j)[k].files.tag = "dict"
            /\ k \in DOMAIN KeptSessions(j)
            /\ DOMAIN SessionsOf(j)[k].files.map /= {}
            /\ DOMAIN SessionsOf(j)[k].files.map /= DOMAIN KeptSessions(j)[k].files.map

\* The SessionItems of the source of facade j that pass the subject and
\* session predicates of the call, in the source's order
KeptSessionIds(j) ==
    SelectSeq(facades[ParentOf(j)].session_list,
              LAMBDA sid : Satisfies(heap.sess[sid], ArgsOf(j),
                                     GivenNotEmpty(ArgsOf(j)) \cap PerSessionKinds))

\* The (subject, session) pairs of a list of SessionItems
PairsOf(ids) == [k \in DOMAIN ids |-> <<heap.sess[ids[k]].subject, heap.sess[ids[k]].session>>]

\* No file of the SessionItem sid passes the per-file predicates a
Emptied(sid, a) == Passing(FileContent(heap, SessionFileIds(heap, sid)), a) = <<>>

\* C23: the session list filter returns holds, in the source's order, one
\* session for exactly the sessions of the source whose subject and session
\* pass the subject and session predicates (those given with a value that is
\* not empty); a session all of whose files fail the per-file predicates
\* stays in the list with an empty file collection, and none of its records
\* is in the returned flat list.
C23_SessionsRetained ==
    \A j \in DOMAIN facades :
        ParentOf(j) >= 1
            => /\ PairsOf(facades[j].session_list) = PairsOf(KeptSessionIds(j))
               /\ \A k \in DOMAIN KeptSessionIds(j) :
                    Emptied(KeptSessionIds(j)[k], ArgsOf(j))
                        => /\ SessionFileIds(heap, facades[j].session_list[k]) = <<>>
                           /\ \A n \in DOMAIN facades[j].file_list :
                                ~InList(facades[j].file_list[n],
                                        SessionFileIds(heap, KeptSessionIds(j)[k]))

\* filter returned a list that dropped a session by its subject, and a list
\* that holds, beside a session with files, a session whose files were all
\* removed by a per-file predicate.
C23_Witness ==
    /\ \E j \in DOMAIN facades :
        /\ ParentOf(j) >= 1
        /\ facades[j].session_list /= <<>>
        /\ Len(facades[j].session_list) < Len(facades[ParentOf(j)].session_list)
    /\ \E j \in DOMAIN facades :
        /\ ParentOf(j) >= 1
        /\ facades[j].file_list /= <<>>
        /\ \E k \in DOMAIN KeptSessionIds(j) :
            /\ SessionFileIds(heap, KeptSessionIds(j)[k]) /= <<>>
            /\ Emptied(KeptSessionIds(j)[k], ArgsOf(j))
            /\ k \in DOMAIN facades[j].session_list
            /\ SessionFileIds(heap, facades[j].session_list[k]) = <<>>

\* The modalities of the records of a flat list
ModalsIn(ids) == {heap.files[ids[n]].modal : n \in DOMAIN ids}

\* C24: the subjects, sessions and modals attributes of the facade filter
\* returns are those of the facade it was called on, whatever the predicates
\* and whatever files they removed.
C24_IdentifiersCarriedOver ==
    \A j \in DOMAIN facades :
        ParentOf(j) >= 1
            => /\ facades[j].has_ids
               /\ facades[j].subjects = facades[ParentOf(j)].subjects
               /\ facades[j].sessions = facades[ParentOf(j)].sessions
               /\ facades[j].modals = facades[ParentOf(j)].modals

\* filter returned a facade that holds records, none of them of a modality
\* its modals attribute lists and the source held records of.
C24_Witness ==
    \E j \in DOMAIN facades :
        /\ ParentOf(j) >= 1
        /\ facades[j].file_list /= <<>>
        /\ ~facades[j].modals.none
        /\ \E n \in DOMAIN facades[j].modals.items :
            /\ facades[j].modals.items[n] \in ModalsIn(facades[ParentOf(j)].file_list)
            /\ facades[j].modals.items[n] \notin ModalsIn(facades[j].file_list)

\* The items of callers that the loop has taken from the queue, in the order
\* it took them
TakenItems == [n \in DOMAIN SelectSeq(taken, LAMBDA t : t.by = "client") |->
                 SelectSeq(taken, LAMBDA t : t.by = "client")[n].item]

\* Every item enqueued before the first stop() was taken, in enqueue order
TakenBeforeStop ==
    /\ Len(TakenItems) >= before
    /\ SubSeq(TakenItems, 1, before) = SubSeq(enqueued, 1, before)

\* C22: a call of stop() on a started scheduler eventually returns, with the
\* loop stopped and the thread ended, and every item enqueued before the
\* stop taken from the queue in enqueue order.
C22_StopReturns ==
    (pc /= "idle") ~> (/\ pc = "idle"
                       /\ thread = "finished"
                       /\ TakenBeforeStop)

====
